---- MODULE Spec2Model ----
(***************************************************************************)
(* Model of two parts of the i915 driver:                                  *)
(*                                                                         *)
(*  - selftests/intel_shit.c: igt_active_engines (the controller that      *)
(*    resets one engine while a worker thread per other engine keeps       *)
(*    submitting requests) and shit_active_engine (the worker);            *)
(*  - intel_guc_ads.c: guc_policies_init, GUC_ADD_MMIO_REG_ADS and         *)
(*    intel_guc_ads_create.                                                *)
(*                                                                         *)
(* SpecHarness is the state machine of the selftest: controller, workers   *)
(* and the engines' environment interleave one atomic step at a time.      *)
(* SpecAds is intel_guc_ads_create, one step per statement, started from   *)
(* every driver state of the input sets.  SpecRegset applies               *)
(* GUC_ADD_MMIO_REG_ADS to a list of its own with arbitrary arguments.     *)
(* Integers stay below 2^31; a register value is the set of its 1 bits.    *)
(***************************************************************************)
EXTENDS Integers, Sequences, FiniteSets, TLC

(* ---------------------------------------------------------------- bounds *)

\* Number of engines for_each_engine enumerates.
NumEngines == 2
\* Most i915_reset_engine calls of one target iteration before the deadline.
MaxAttempts == 2
\* Most engine resets the hang detector starts on its own during a run.
MaxHangResets == 1

Engines == 0 .. (NumEngines - 1)

VARIABLES
    \* igt_active_engines
    hpc,                \* position of the controller
    has_reset_engine,   \* intel_has_reset_engine(i915)
    do_reset,           \* the do_reset argument
    engine,             \* the target engine of the current iteration
    tmp,                \* index of the inner for_each_engine loops
    global,             \* i915_reset_count sampled at the top of the iteration
    global_after,       \* i915_reset_count as read by the final comparison
    resets,             \* resets[]: defined exactly for the engines sampled
    readback,           \* per-engine count read after the join
    threads,            \* engines whose threads[] entry is not NULL
    err,                \* err
    attempts,           \* i915_reset_engine calls completed this iteration
    log,                \* pr_err messages printed so far
    baseline,           \* per-engine counts when the iteration began
    \* struct i915_gpu_error
    reset_count,        \* global reset count
    reset_engine_count, \* per-engine reset count
    flags,              \* engines whose I915_RESET_ENGINE bit is set
    hangs,              \* resets started by the hang detector so far
    \* shit_active_engine, one per engine
    wpc,                \* position of the worker
    should_stop,        \* kthread_should_stop()
    count,              \* count, modulo 2
    rq,                 \* rq[2]: "null", "busy" or "done"
    old,                \* old
    werr,               \* err of the worker
    inflight,           \* requests added by the live worker, not completed
    struct_mutex,       \* holder of drm.struct_mutex, or NoOwner
    \* intel_guc_ads_create
    apc,                \* position in intel_guc_ads_create
    ads_vma,            \* guc->ads_vma is set
    mapped,             \* the first page of the blob is kmap'ed
    ads_ret,            \* return value, "none" before the return
    policies,           \* blob->policies
    pol_p,              \* p of guc_policies_init
    pol_i,              \* i of guc_policies_init
    reg_state,          \* blob->reg_state: engine_reg[] and white_list[]
    ads,                \* blob->ads
    aeng,               \* engine of the current for_each_engine step
    wa_i,               \* i of the workaround loop
    warns,              \* WARN_ON reports of GUC_ADD_MMIO_REG_ADS
    mmio_reads,         \* I915_READ calls made so far
    \* the driver state intel_guc_ads_create reads
    guc_reg,            \* workarounds->guc_reg[0 .. guc_count - 1]
    ring_mode,          \* what I915_READ(RING_MODE_GEN7(engine)) returns
    context_size,       \* engine->context_size
    kernel_ctx_offset,  \* intel_guc_ggtt_offset(guc, kernel_ctx_vma)
    ads_offset,         \* intel_guc_ggtt_offset(guc, vma)
    nonpriv,            \* what I915_READ(RING_FORCE_TO_NONPRIV(..)) returns
    \* a register list built by GUC_ADD_MMIO_REG_ADS calls alone
    node,               \* the list
    calls               \* the arguments of the calls made so far

hvars == <<hpc, has_reset_engine, do_reset, engine, tmp, global, global_after,
           resets, readback, threads, err, attempts, log, baseline>>
evars == <<reset_count, reset_engine_count, flags, hangs>>
wvars == <<wpc, should_stop, count, rq, old, werr, inflight,
           struct_mutex>>
harness_vars == <<hvars, evars, wvars>>
avars == <<apc, ads_vma, mapped, ads_ret, policies, pol_p, pol_i, reg_state,
           ads, aeng, wa_i, warns, mmio_reads>>
ivars == <<guc_reg, ring_mode, context_size, kernel_ctx_offset, ads_offset,
           nonpriv>>
rvars == <<node, calls>>
ads_vars == <<avars, ivars, rvars>>
vars == <<hvars, evars, wvars, avars, ivars, rvars>>

\* struct_mutex is free: no engine's worker holds it.
NoOwner == NumEngines
NoFn == [x \in {} |-> 0]

(* ------------------------------------------------- reset of one engine *)

\* reset(engine): the global count moves once per completed attempt.
ResetGlobalCount(gc) == gc + 1

\* reset(engine): the engine's own count moves once, on success only.
ResetEngineCount(ec, e, ok) == IF ok THEN [ec EXCEPT ![e] = @ + 1] ELSE ec

(* --------------------------------------------------- shit_active_engine *)

\* idx = count++ & 1, seen after the increment.
SlotIndex(c) == 1 - c

\* Variant: the wait for the slot's previous occupant returns at once.
WaitReturnsAtOnce(o) == TRUE

\* i915_request_wait(old, 0, MAX_SCHEDULE_TIMEOUT) returns once old completed.
WaitReturns(o) == o = "done"

\* file = mock_file(engine->i915); if (IS_ERR(file)) return PTR_ERR(file);
W_MockFileFail(e) ==
    /\ wpc[e] = "setup"
    /\ wpc' = [wpc EXCEPT ![e] = "exited"]
    /\ werr' = [werr EXCEPT ![e] = "ENOMEM"]
    /\ UNCHANGED <<hvars, evars, should_stop, count, rq, old, inflight,
                   struct_mutex>>
    /\ UNCHANGED ads_vars

\* mutex_lock(&engine->i915->drm.struct_mutex) ahead of ctx[0] and of
\* ctx[1] = live_context(engine->i915, file).
W_CtxLock(e) ==
    /\ wpc[e] \in {"setup", "setup1"}
    /\ struct_mutex = NoOwner
    /\ struct_mutex' = e
    /\ wpc' = [wpc EXCEPT ![e] = IF wpc[e] = "setup" THEN "ctx0" ELSE "ctx1"]
    /\ UNCHANGED <<hvars, evars, should_stop, count, rq, old, werr, inflight>>
    /\ UNCHANGED ads_vars

\* live_context returned; mutex_unlock; if (IS_ERR(ctx[k])) goto err_file.
W_CtxUnlock(e) ==
    /\ wpc[e] \in {"ctx0", "ctx1"}
    /\ struct_mutex = e
    /\ struct_mutex' = NoOwner
    /\ \E ok \in BOOLEAN :
        IF ok
        THEN /\ wpc' = [wpc EXCEPT ![e] =
                            IF wpc[e] = "ctx0" THEN "setup1" ELSE "loop"]
             /\ werr' = werr
        ELSE /\ wpc' = [wpc EXCEPT ![e] = "exited"]
             /\ werr' = [werr EXCEPT ![e] = "ENOMEM"]
    /\ UNCHANGED <<hvars, evars, should_stop, count, rq, old, inflight>>
    /\ UNCHANGED ads_vars

\* Leaving the loop: the i915_request_put loop drops both references (the
\* requests stay queued on the engine), mock_file_free, return err.
W_Return(e, code) ==
    /\ rq' = [rq EXCEPT ![e] = [i \in {0, 1} |-> "null"]]
    /\ inflight' = [inflight EXCEPT ![e] = 0]
    /\ count' = [count EXCEPT ![e] = 0]
    /\ werr' = [werr EXCEPT ![e] = code]
    /\ wpc' = [wpc EXCEPT ![e] = "exited"]

\* Variant: the loop test does not look at the stop signal.
W_LoopCheckIgnoresStop(e) ==
    /\ wpc[e] = "loop"
    /\ wpc' = [wpc EXCEPT ![e] = "lock"]
    /\ count' = [count EXCEPT ![e] = 1 - @]
    /\ UNCHANGED <<hvars, evars, should_stop, rq, old, werr, inflight,
                   struct_mutex>>
    /\ UNCHANGED ads_vars

\* while (!kthread_should_stop()) { idx = count++ & 1; old = rq[idx]; ...
W_LoopCheck(e) ==
    /\ wpc[e] = "loop"
    /\ ~should_stop[e]
    /\ wpc' = [wpc EXCEPT ![e] = "lock"]
    /\ count' = [count EXCEPT ![e] = 1 - @]
    /\ UNCHANGED <<hvars, evars, should_stop, rq, old, werr, inflight,
                   struct_mutex>>
    /\ UNCHANGED ads_vars

\* kthread_should_stop() is true at the loop test: leave with err = 0.
W_Stopped(e) ==
    /\ wpc[e] = "loop"
    /\ should_stop[e]
    /\ W_Return(e, "OK")
    /\ UNCHANGED <<hvars, evars, should_stop, old, struct_mutex>>
    /\ UNCHANGED ads_vars

\* mutex_lock(&engine->i915->drm.struct_mutex)
W_Lock(e) ==
    /\ wpc[e] = "lock"
    /\ struct_mutex = NoOwner
    /\ struct_mutex' = e
    /\ wpc' = [wpc EXCEPT ![e] = "alloc"]
    /\ UNCHANGED <<hvars, evars, should_stop, count, rq, old, werr, inflight>>
    /\ UNCHANGED ads_vars

\* i915_request_alloc succeeded: rq[idx] = new, i915_request_add, unlock.
W_Submit(e) ==
    /\ wpc[e] = "alloc"
    /\ struct_mutex = e
    /\ LET idx == SlotIndex(count[e]) IN
        /\ old' = [old EXCEPT ![e] = rq[e][idx]]
        /\ rq' = [rq EXCEPT ![e][idx] = "busy"]
        /\ wpc' = [wpc EXCEPT ![e] =
                      IF rq[e][idx] = "null" THEN "loop" ELSE "wait"]
    /\ inflight' = [inflight EXCEPT ![e] = @ + 1]
    /\ struct_mutex' = NoOwner
    /\ UNCHANGED <<hvars, evars, should_stop, count, werr>>
    /\ UNCHANGED ads_vars

\* Variant: the allocation-failure path breaks out without the unlock.
W_AllocFailKeepsMutex(e) ==
    /\ wpc[e] = "alloc"
    /\ struct_mutex = e
    /\ W_Return(e, "ENOMEM")
    /\ UNCHANGED <<hvars, evars, should_stop, old, struct_mutex>>
    /\ UNCHANGED ads_vars

\* i915_request_alloc failed: unlock, err = PTR_ERR(new), break.
W_AllocFail(e) ==
    /\ wpc[e] = "alloc"
    /\ struct_mutex = e
    /\ struct_mutex' = NoOwner
    /\ W_Return(e, "ENOMEM")
    /\ UNCHANGED <<hvars, evars, should_stop, old>>
    /\ UNCHANGED ads_vars

\* if (old) { i915_request_wait(old, ...); i915_request_put(old); }
W_Wait(e) ==
    /\ wpc[e] = "wait"
    /\ WaitReturns(old[e])
    /\ old' = [old EXCEPT ![e] = "null"]
    /\ wpc' = [wpc EXCEPT ![e] = "loop"]
    /\ UNCHANGED <<hvars, evars, should_stop, count, rq, werr, inflight,
                   struct_mutex>>
    /\ UNCHANGED ads_vars

(* ------------------------------------------------------- the engines *)

\* The slot the worker filled last: count is already stepped for the next
\* submission between the loop test and i915_request_add.
LastSlot(e) == IF wpc[e] \in {"lock", "alloc"} THEN count[e] ELSE 1 - count[e]

\* The engine executes its requests in the order they were added: the oldest
\* uncompleted request of the worker is old, then the other slot, then the
\* slot filled last.
E_Complete(e) ==
    /\ inflight[e] > 0
    /\ IF old[e] = "busy"
       THEN /\ old' = [old EXCEPT ![e] = "done"]
            /\ rq' = rq
       ELSE /\ old' = old
            /\ rq' = [rq EXCEPT ![e][IF rq[e][1 - LastSlot(e)] = "busy"
                                     THEN 1 - LastSlot(e)
                                     ELSE LastSlot(e)] = "done"]
    /\ inflight' = [inflight EXCEPT ![e] = @ - 1]
    /\ UNCHANGED <<hvars, evars, wpc, should_stop, count, werr, struct_mutex>>
    /\ UNCHANGED ads_vars

\* Hang detection: the controller resets engine e on its own.
E_HangReset(e) ==
    /\ hangs < MaxHangResets
    /\ hangs' = hangs + 1
    /\ reset_count' = ResetGlobalCount(reset_count)
    /\ reset_engine_count' = ResetEngineCount(reset_engine_count, e, TRUE)
    /\ UNCHANGED <<hvars, wvars, flags>>
    /\ UNCHANGED ads_vars

(* --------------------------------------------------- igt_active_engines *)

\* Variant: the first inner loop does not skip the target engine.
IsTargetNever(active, target) == FALSE

\* if (active == engine) continue;
IsTarget(active, target) == active = target

\* Variant: the exit code of a failed worker replaces whatever err holds.
ErrAfterStopOverwrites(e, ret) == IF ret # "OK" THEN ret ELSE e

\* if (ret) { pr_err(...); if (!err) err = ret; }
ErrAfterStop(e, ret) == IF ret # "OK" /\ e = "OK" THEN ret ELSE e

\* Variant: the per-engine comparison after the join is left out.
InnocentResetIgnored(sampled, now) == FALSE

\* if (resets[tmp] != i915_reset_engine_count(&i915->gpu_error, active))
InnocentReset(sampled, now) == sampled # now

\* Variant: the resets of the target completed in this iteration are allowed
\* for in the comparison of the global count.
GlobalChangedUnattributed(sampled, now) == now - sampled # attempts

\* Variant: the comparison of the global count is left out.
GlobalChangedIgnored(sampled, now) == FALSE

\* if (global != i915_reset_count(&i915->gpu_error))
GlobalChanged(sampled, now) == sampled # now

\* Variant: a failed i915_reset_engine does not leave the do/while loop.
AfterResetFailureRetry == "reset"

\* if (err) { pr_err(...); break; }: the failure leaves the do/while loop.
AfterResetFailure == "clear"

\* for_each_engine(active, i915, tmp) { if (active == engine) continue; ...
\* the first engine from index i on that the first inner loop does not skip,
\* NumEngines when the loop is over.
RECURSIVE SpawnFrom(_, _)
SpawnFrom(i, target) ==
    IF i >= NumEngines THEN NumEngines
    ELSE IF IsTarget(i, target) THEN SpawnFrom(i + 1, target)
    ELSE i

\* for_each_engine(active, i915, tmp) { if (!threads[tmp]) continue; ...
\* the first engine from index i on that the unwind loop does not skip.
RECURSIVE UnwindFrom(_, _)
UnwindFrom(i, started) ==
    IF i >= NumEngines THEN NumEngines
    ELSE IF i \notin started THEN UnwindFrom(i + 1, started)
    ELSE i

\* if (!intel_has_reset_engine(i915)) return 0;
H_Entry ==
    /\ hpc = "entry"
    /\ hpc' = IF has_reset_engine THEN "iter" ELSE "returned"
    /\ UNCHANGED <<has_reset_engine, do_reset, engine, tmp, global,
                   global_after, resets, readback, threads, err, attempts,
                   log, baseline, evars, wvars>>
    /\ UNCHANGED ads_vars

\* Top of the outer loop body: global = i915_reset_count(), memset(threads).
H_IterBegin ==
    /\ hpc = "iter"
    /\ global' = reset_count
    /\ global_after' = reset_count
    /\ baseline' = reset_engine_count
    /\ threads' = {}
    /\ resets' = NoFn
    /\ readback' = NoFn
    /\ attempts' = 0
    /\ tmp' = SpawnFrom(0, engine)
    /\ hpc' = "spawn"
    /\ UNCHANGED <<has_reset_engine, do_reset, engine, err, log, evars, wvars>>
    /\ UNCHANGED ads_vars

\* Inner loop: sample resets[tmp], kthread_run, threads[tmp] = tsk.
H_Spawn ==
    /\ hpc = "spawn"
    /\ tmp \in Engines
    /\ resets' = (tmp :> reset_engine_count[tmp]) @@ resets
    /\ \E started \in BOOLEAN :
        IF started
        THEN /\ threads' = threads \cup {tmp}
             /\ wpc' = [wpc EXCEPT ![tmp] = "setup"]
             /\ should_stop' = [should_stop EXCEPT ![tmp] = FALSE]
             /\ werr' = [werr EXCEPT ![tmp] = "OK"]
             /\ tmp' = SpawnFrom(tmp + 1, engine)
             /\ UNCHANGED <<hpc, err>>
        ELSE /\ err' = "ENOMEM"
             /\ hpc' = "unwind"
             /\ tmp' = UnwindFrom(0, threads)
             /\ UNCHANGED <<threads, wpc, should_stop, werr>>
    /\ UNCHANGED <<has_reset_engine, do_reset, engine, global, global_after,
                   readback, attempts, log, baseline, evars, count, rq, old,
                   inflight, struct_mutex>>
    /\ UNCHANGED ads_vars

\* set_bit(I915_RESET_ENGINE + engine->id, &i915->gpu_error.flags)
H_SetBit ==
    /\ hpc = "spawn"
    /\ tmp = NumEngines
    /\ flags' = flags \cup {engine}
    /\ hpc' = "reset"
    /\ UNCHANGED <<has_reset_engine, do_reset, engine, tmp, global,
                   global_after, resets, readback, threads, err, attempts,
                   log, baseline, reset_count, reset_engine_count, hangs,
                   wvars>>
    /\ UNCHANGED ads_vars

\* do { if (do_reset) { err = i915_reset_engine(engine, NULL); if (err) break; }
\* } while (time_before(jiffies, end_time));
H_Reset ==
    /\ hpc = "reset"
    /\ do_reset
    /\ attempts < MaxAttempts
    /\ attempts' = attempts + 1
    /\ reset_count' = ResetGlobalCount(reset_count)
    /\ \E ok \in BOOLEAN :
        /\ reset_engine_count' = ResetEngineCount(reset_engine_count, engine, ok)
        /\ IF ok
           THEN /\ \E more \in BOOLEAN :
                    hpc' = IF more /\ attempts' < MaxAttempts
                           THEN "reset" ELSE "clear"
                /\ UNCHANGED <<err, log>>
           ELSE /\ err' = "ENODEV"
                /\ log' = log \cup {"reset_failed"}
                /\ hpc' = AfterResetFailure
    /\ UNCHANGED <<has_reset_engine, do_reset, engine, tmp, global,
                   global_after, resets, readback, threads, baseline, flags,
                   hangs, wvars>>
    /\ UNCHANGED ads_vars

\* The same loop with do_reset false: it only waits for the deadline.
H_Idle ==
    /\ hpc = "reset"
    /\ ~do_reset
    /\ hpc' = "clear"
    /\ UNCHANGED <<has_reset_engine, do_reset, engine, tmp, global,
                   global_after, resets, readback, threads, err, attempts,
                   log, baseline, evars, wvars>>
    /\ UNCHANGED ads_vars

\* Variant: the bit is left set after the loop.
FlagsAfterClearKept(f, target) == f

\* clear_bit(I915_RESET_ENGINE + engine->id, &i915->gpu_error.flags)
FlagsAfterClear(f, target) == f \ {target}

\* clear_bit(I915_RESET_ENGINE + engine->id, &i915->gpu_error.flags)
H_ClearBit ==
    /\ hpc = "clear"
    /\ flags' = FlagsAfterClear(flags, engine)
    /\ tmp' = UnwindFrom(0, threads)
    /\ hpc' = "unwind"
    /\ UNCHANGED <<has_reset_engine, do_reset, engine, global, global_after,
                   resets, readback, threads, err, attempts, log, baseline,
                   reset_count, reset_engine_count, hangs, wvars>>
    /\ UNCHANGED ads_vars

\* kthread_stop(threads[tmp]): raise the stop signal, then wait for the exit.
H_Stop ==
    /\ hpc = "unwind"
    /\ tmp \in threads
    /\ should_stop' = [should_stop EXCEPT ![tmp] = TRUE]
    /\ hpc' = "join"
    /\ UNCHANGED <<has_reset_engine, do_reset, engine, tmp, global,
                   global_after, resets, readback, threads, err, attempts,
                   log, baseline, evars, wpc, count, rq, old, werr, inflight,
                   struct_mutex>>
    /\ UNCHANGED ads_vars

\* kthread_stop returned ret; the comparison of the engine's reset count.
H_Join ==
    /\ hpc = "join"
    /\ wpc[tmp] = "exited"
    /\ LET ret == werr[tmp]
           now == reset_engine_count[tmp]
           e1 == ErrAfterStop(err, ret)
       IN /\ readback' = (tmp :> now) @@ readback
          /\ err' = IF InnocentReset(resets[tmp], now) THEN "EIO" ELSE e1
          /\ log' = log \cup (IF ret # "OK" THEN {"kthread_failed"} ELSE {})
                        \cup (IF InnocentReset(resets[tmp], now)
                              THEN {"innocent"} ELSE {})
    /\ wpc' = [wpc EXCEPT ![tmp] = "none"]
    /\ should_stop' = [should_stop EXCEPT ![tmp] = FALSE]
    /\ werr' = [werr EXCEPT ![tmp] = "OK"]
    /\ tmp' = UnwindFrom(tmp + 1, threads)
    /\ hpc' = "unwind"
    /\ UNCHANGED <<has_reset_engine, do_reset, engine, global, global_after,
                   resets, threads, attempts, baseline, evars, count, rq, old,
                   inflight, struct_mutex>>
    /\ UNCHANGED ads_vars

\* if (global != i915_reset_count(...)) { pr_err("Global reset"); err = -EIO; }
H_GlobalCheck ==
    /\ hpc = "unwind"
    /\ tmp = NumEngines
    /\ global_after' = reset_count
    /\ IF GlobalChanged(global, reset_count)
       THEN /\ err' = "EIO"
            /\ log' = log \cup {"global"}
       ELSE UNCHANGED <<err, log>>
    /\ hpc' = "iterend"
    /\ UNCHANGED <<has_reset_engine, do_reset, engine, tmp, global, resets,
                   readback, threads, attempts, baseline, evars, wvars>>
    /\ UNCHANGED ads_vars

\* if (err) break; cond_resched(); and the step of the outer loop.
H_IterEnd ==
    /\ hpc = "iterend"
    /\ IF err # "OK" \/ engine = NumEngines - 1
       THEN /\ hpc' = "final"
            /\ engine' = engine
       ELSE /\ hpc' = "iter"
            /\ engine' = engine + 1
    /\ UNCHANGED <<has_reset_engine, do_reset, tmp, global, global_after,
                   resets, readback, threads, err, attempts, log, baseline,
                   evars, wvars>>
    /\ UNCHANGED ads_vars

\* if (i915_terminally_wedged(&i915->gpu_error)) err = -EIO; return err;
\* The device can be found wedged only after a reset of the run has failed.
H_Final ==
    /\ hpc = "final"
    /\ \E wedged \in {FALSE, "reset_failed" \in log} :
        err' = IF wedged THEN "EIO" ELSE err
    /\ hpc' = "returned"
    /\ UNCHANGED <<has_reset_engine, do_reset, engine, tmp, global,
                   global_after, resets, readback, threads, attempts, log,
                   baseline, evars, wvars>>
    /\ UNCHANGED ads_vars

(* ------------------------------------------ intel_guc_ads.c: constants *)

\* Capacity of one register list (registers[] of struct guc_mmio_regset),
\* scaled down so that the render engine's list can overflow.
GUC_REGSET_MAX_REGISTERS == 4
\* Most entries of workarounds->guc_reg[] (guc_count).
MaxGucCount == 3

PAGE_SIZE == 4096
LRC_HEADER_PAGES == 1
LRC_PPHWSP_SZ == 1
\* #define LR_HW_CONTEXT_SIZE (80 * sizeof(u32))
LR_HW_CONTEXT_SIZE == 80 * 4

POLICY_DEFAULT_DPC_PROMOTE_TIME_US == 500000
POLICY_MAX_NUM_WI == 15
POLICY_DEFAULT_EXECUTION_QUANTUM_US == 1000000
POLICY_DEFAULT_PREEMPTION_TIME_US == 500000
POLICY_DEFAULT_FAULT_TIME_US == 250000
GUC_CLIENT_PRIORITY_NUM == 4
GUC_RENDER_ENGINE == 0
GUC_MAX_ENGINES_NUM == 5
GUC_MMIO_WHITE_LIST_MAX == 12
GUC_S3_SAVE_SPACE_PAGES == 10

RCS == 0
\* A 32-bit register value is the set of its bits that are 1, so `|` is
\* \cup and 0 is {}: GFX_RUN_LIST_ENABLE is 1 << 15, GFX_INTERRUPT_STEERING
\* 1 << 14 and RingModeMask 0xFFFF << 16.
GFX_RUN_LIST_ENABLE == {15}
GfxInterruptSteeringLeftOut == {}
GFX_INTERRUPT_STEERING == {14}
RingModeMask == 16 .. 31

\* engine->mmio_base, engine->guc_id and the registers of an engine.
MmioBase(e) == 8192 + e * 65536
GucId(e) == e
RING_HWS_PGA(base) == base + 128
RING_MODE_GEN7(e) == MmioBase(e) + 668
RING_IMR(base) == base + 168
RING_FORCE_TO_NONPRIV(base, i) == (base + 1232) + i * 4

GucIds == 0 .. (GUC_MAX_ENGINES_NUM - 1)
PolicyCells == (0 .. (GUC_CLIENT_PRIORITY_NUM - 1)) \X
               (GUC_RENDER_ENGINE .. (GUC_MAX_ENGINES_NUM - 1))

\* No blob: intel_guc_allocate_vma has not returned an object.
NoBlob == <<>>

\* The pages of the blob's object before the first write.
ZeroPolicy == [execution_quantum |-> 0, preemption_time |-> 0,
               fault_time |-> 0, policy_flags |-> 0]
ZeroPolicies == [policy |-> [c \in PolicyCells |-> ZeroPolicy],
                 dpc_promote_time |-> 0, is_valid |-> 0,
                 max_num_work_items |-> 0]
ZeroReg == [offset |-> 0, value |-> {}, flags |-> {}]
ZeroRegset == [registers |-> [k \in 0 .. (GUC_REGSET_MAX_REGISTERS - 1) |->
                                ZeroReg],
               number_of_registers |-> 0]
ZeroWhiteList == [mmio_start |-> 0, count |-> 0,
                  offsets |-> [k \in 0 .. (GUC_MMIO_WHITE_LIST_MAX - 1) |-> 0]]
ZeroRegState == [engine_reg |-> [g \in GucIds |-> ZeroRegset],
                 white_list |-> [g \in GucIds |-> ZeroWhiteList]]
ZeroAds == [reg_state_addr |-> 0, reg_state_buffer |-> 0,
            golden_context_lrca |-> 0, scheduler_policies |-> 0,
            eng_state_size |-> [g \in GucIds |-> 0]]

\* Layout of the packed blob: ads, policies, reg_state, reg_state_buffer.
SizeofAds == 4 * (4 + 3 + GUC_MAX_ENGINES_NUM + 4)
SizeofPolicy == 4 * (4 + 8)
SizeofPolicies == GUC_CLIENT_PRIORITY_NUM * GUC_MAX_ENGINES_NUM * SizeofPolicy
                  + 4 * (GUC_MAX_ENGINES_NUM + 3 + 4)
SizeofRegset == 12 * GUC_REGSET_MAX_REGISTERS + 8
SizeofWhiteList == 4 * (1 + GUC_MMIO_WHITE_LIST_MAX + 1)
SizeofRegState == GUC_MAX_ENGINES_NUM * (SizeofRegset + SizeofWhiteList)
\* ptr_offset with the register-state buffer placed right after the
\* policies, over the register state.
PtrOffsetBufferOverRegState(member) ==
    CASE member = "ads" -> 0
      [] member = "policies" -> SizeofAds
      [] member = "reg_state" -> SizeofAds + SizeofPolicies
      [] member = "reg_state_buffer" -> SizeofAds + SizeofPolicies

PtrOffset(member) ==
    CASE member = "ads" -> 0
      [] member = "policies" -> SizeofAds
      [] member = "reg_state" -> SizeofAds + SizeofPolicies
      [] member = "reg_state_buffer" ->
             SizeofAds + SizeofPolicies + SizeofRegState

\* sizeof(*blob) and PAGE_ALIGN(sizeof(*blob)), the size asked of
\* intel_guc_allocate_vma.
SizeofRegStateBuffer == GUC_S3_SAVE_SPACE_PAGES * PAGE_SIZE
SizeofBlob == SizeofAds + SizeofPolicies + SizeofRegState
              + SizeofRegStateBuffer
PageAlign(x) == ((x + PAGE_SIZE - 1) \div PAGE_SIZE) * PAGE_SIZE

\* const u32 skipped_offset = LRC_HEADER_PAGES * PAGE_SIZE;
skipped_offset_with_registers ==
    (LRC_HEADER_PAGES * PAGE_SIZE + LR_HW_CONTEXT_SIZE)

skipped_offset == (LRC_HEADER_PAGES * PAGE_SIZE)

\* const u32 skipped_size = LRC_PPHWSP_SZ * PAGE_SIZE + LR_HW_CONTEXT_SIZE;
skipped_size_with_header ==
    (LRC_PPHWSP_SZ * PAGE_SIZE + (PAGE_SIZE + LR_HW_CONTEXT_SIZE))

skipped_size == (LRC_PPHWSP_SZ * PAGE_SIZE + LR_HW_CONTEXT_SIZE)

(* -------------------------------------------------- guc_policies_init *)

\* guc_policy_init
DefaultPolicy ==
    [execution_quantum |-> POLICY_DEFAULT_EXECUTION_QUANTUM_US,
     preemption_time |-> POLICY_DEFAULT_PREEMPTION_TIME_US,
     fault_time |-> POLICY_DEFAULT_FAULT_TIME_US,
     policy_flags |-> 0]

\* The statement of guc_policies_init that writes is_valid.
IsValidWrittenFirst(pos) == pos = "pol_dpc"

IsValidWrittenAt(pos) == pos = "pol_valid"

MarkValid(pol, pos) ==
    IF IsValidWrittenAt(pos) THEN [pol EXCEPT !.is_valid = 1] ELSE pol

A_Frame == UNCHANGED <<harness_vars, ivars, rvars>>

\* Variant: dpc_promote_time is not written ahead of the cells.
A_PolDpcDeferred ==
    /\ apc = "pol_dpc"
    /\ apc' = "pol_wi"
    /\ UNCHANGED <<ads_vma, mapped, ads_ret, policies, pol_p, pol_i,
                   reg_state, ads, aeng, wa_i, warns, mmio_reads>>
    /\ A_Frame

\* policies->dpc_promote_time = POLICY_DEFAULT_DPC_PROMOTE_TIME_US;
A_PolDpc ==
    /\ apc = "pol_dpc"
    /\ policies' = MarkValid([policies EXCEPT !.dpc_promote_time =
                                  POLICY_DEFAULT_DPC_PROMOTE_TIME_US], apc)
    /\ apc' = "pol_wi"
    /\ UNCHANGED <<ads_vma, mapped, ads_ret, pol_p, pol_i, reg_state, ads, aeng,
                   wa_i, warns>>
    /\ A_Frame
    /\ UNCHANGED mmio_reads

\* policies->max_num_work_items = POLICY_MAX_NUM_WI; and the loops begin.
A_PolMaxWi ==
    /\ apc = "pol_wi"
    /\ policies' = MarkValid([policies EXCEPT !.max_num_work_items =
                                  POLICY_MAX_NUM_WI], apc)
    /\ pol_p' = 0
    /\ pol_i' = GUC_RENDER_ENGINE
    /\ apc' = "pol_cell"
    /\ UNCHANGED <<ads_vma, mapped, ads_ret, reg_state, ads, aeng, wa_i, warns>>
    /\ A_Frame
    /\ UNCHANGED mmio_reads

\* guc_policy_init(&policies->policy[p][i]); and the loop increments.
A_PolCell ==
    /\ apc = "pol_cell"
    /\ policies' = MarkValid([policies EXCEPT
                                  !.policy[<<pol_p, pol_i>>] = DefaultPolicy],
                             apc)
    /\ IF pol_i + 1 < GUC_MAX_ENGINES_NUM
       THEN /\ pol_i' = pol_i + 1
            /\ UNCHANGED <<pol_p, apc>>
       ELSE /\ pol_i' = GUC_RENDER_ENGINE
            /\ pol_p' = pol_p + 1
            /\ apc' = IF pol_p + 1 < GUC_CLIENT_PRIORITY_NUM
                      THEN "pol_cell" ELSE "pol_valid"
    /\ UNCHANGED <<ads_vma, mapped, ads_ret, reg_state, ads, aeng, wa_i, warns>>
    /\ A_Frame
    /\ UNCHANGED mmio_reads

\* policies->is_valid = 1; return; for_each_engine begins.
A_PolValid ==
    /\ apc = "pol_valid"
    /\ policies' = MarkValid(policies, apc)
    /\ aeng' = 0
    /\ apc' = "reg_hws"
    /\ UNCHANGED <<ads_vma, mapped, ads_ret, pol_p, pol_i, reg_state, ads, wa_i,
                   warns>>
    /\ A_Frame
    /\ UNCHANGED mmio_reads

(* ----------------------------------------------- GUC_ADD_MMIO_REG_ADS *)

\* The macro with the capacity test replaced by one that keeps storing.
GucAddClobbersLast(n, off, fl, dv) ==
    LET c == n.number_of_registers IN
    IF c >= GUC_REGSET_MAX_REGISTERS
    THEN [node |-> [n EXCEPT !.registers[GUC_REGSET_MAX_REGISTERS - 1] =
                        [offset |-> off, flags |-> fl, value |-> dv]],
          warned |-> TRUE]
    ELSE [node |-> [registers |-> [n.registers EXCEPT ![c] =
                        [offset |-> off, flags |-> fl,
                         value |-> IF dv # {} THEN dv ELSE @.value]],
                    number_of_registers |-> c + 1],
          warned |-> FALSE]

\* The macro storing at the first slot instead of slot __count.
GucAddStoresAtFirst(n, off, fl, dv) ==
    LET c == n.number_of_registers IN
    IF c >= GUC_REGSET_MAX_REGISTERS
    THEN [node |-> n, warned |-> TRUE]
    ELSE [node |-> [registers |-> [n.registers EXCEPT ![0] =
                        [offset |-> off, flags |-> fl,
                         value |-> IF dv # {} THEN dv ELSE @.value]],
                    number_of_registers |-> c + 1],
          warned |-> FALSE]

\* GUC_ADD_MMIO_REG_ADS(node, reg_addr, _flags, defvalue): the list after
\* the call and whether WARN_ON fired.
GucAddMmioRegAds(n, off, fl, dv) ==
    LET c == n.number_of_registers IN
    IF c >= GUC_REGSET_MAX_REGISTERS
    THEN [node |-> n, warned |-> TRUE]
    ELSE [node |-> [registers |-> [n.registers EXCEPT ![c] =
                        [offset |-> off, flags |-> fl,
                         value |-> IF dv # {} THEN dv ELSE @.value]],
                    number_of_registers |-> c + 1],
          warned |-> FALSE]

(* ----------------------------------------------- intel_guc_ads_create *)

\* eng_reg = &blob->reg_state.engine_reg[engine->guc_id] after one
\* GUC_ADD_MMIO_REG_ADS, and the WARN_ON count.
AddToEngine(e, off, fl, dv) ==
    LET r == GucAddMmioRegAds(reg_state.engine_reg[GucId(e)], off, fl, dv) IN
    /\ reg_state' = [reg_state EXCEPT !.engine_reg[GucId(e)] = r.node]
    /\ warns' = IF r.warned THEN warns + 1 ELSE warns

\* vma = intel_guc_allocate_vma(...) succeeds with a zero-filled object;
\* guc->ads_vma = vma;
A_Alloc ==
    /\ apc = "alloc"
    /\ ~ads_vma
    /\ ads_vma' = TRUE
    /\ policies' = ZeroPolicies
    /\ reg_state' = ZeroRegState
    /\ ads' = ZeroAds
    /\ apc' = "map"
    /\ UNCHANGED <<mapped, ads_ret, pol_p, pol_i, aeng, wa_i, warns>>
    /\ A_Frame
    /\ UNCHANGED mmio_reads

\* Variant: the failed vma is stored in guc->ads_vma before the IS_ERR test.
A_AllocFailAfterPublish ==
    /\ apc = "alloc"
    /\ ~ads_vma
    /\ ads_vma' = TRUE
    /\ ads_ret' = "ENOMEM"
    /\ apc' = "returned"
    /\ UNCHANGED <<mapped, policies, pol_p, pol_i, reg_state, ads, aeng,
                   wa_i, warns, mmio_reads>>
    /\ A_Frame

\* if (IS_ERR(vma)) return PTR_ERR(vma);
A_AllocFail ==
    /\ apc = "alloc"
    /\ ~ads_vma
    /\ ads_ret' = "ENOMEM"
    /\ apc' = "returned"
    /\ UNCHANGED <<ads_vma, mapped, policies, pol_p, pol_i, reg_state, ads,
                   aeng, wa_i, warns>>
    /\ A_Frame
    /\ UNCHANGED mmio_reads

\* Variant: the build goes on without the page being mapped.
A_MapLeftOut ==
    /\ apc = "map"
    /\ apc' = "pol_dpc"
    /\ UNCHANGED <<ads_vma, mapped, ads_ret, policies, pol_p, pol_i, reg_state,
                   ads, aeng, wa_i, warns, mmio_reads>>
    /\ A_Frame

\* page = i915_vma_first_page(vma); blob = kmap(page);
A_Map ==
    /\ apc = "map"
    /\ mapped' = TRUE
    /\ apc' = "pol_dpc"
    /\ UNCHANGED <<ads_vma, ads_ret, policies, pol_p, pol_i, reg_state, ads, aeng,
                   wa_i, warns>>
    /\ A_Frame
    /\ UNCHANGED mmio_reads

\* GUC_ADD_MMIO_REG_ADS(eng_reg, RING_HWS_PGA(engine->mmio_base), ..., 0);
A_RegHws ==
    /\ apc = "reg_hws"
    /\ AddToEngine(aeng, RING_HWS_PGA(MmioBase(aeng)),
                   {"ENGINERESET", "SAVE_CURRENT_VALUE"}, {})
    /\ apc' = "reg_mode"
    /\ UNCHANGED <<ads_vma, mapped, ads_ret, policies, pol_p, pol_i, ads, aeng,
                   wa_i>>
    /\ A_Frame
    /\ UNCHANGED mmio_reads

\* GUC_ADD_MMIO_REG_ADS(eng_reg, RING_MODE_GEN7(engine), ...,
\*                      I915_READ(...) | GFX_RUN_LIST_ENABLE | ...);
A_RegMode ==
    /\ apc = "reg_mode"
    /\ AddToEngine(aeng, RING_MODE_GEN7(aeng),
                   {"ENGINERESET", "SAVE_DEFAULT_VALUE"},
                   ring_mode[aeng] \cup GFX_RUN_LIST_ENABLE
                       \cup GFX_INTERRUPT_STEERING \cup RingModeMask)
    /\ apc' = "reg_imr"
    /\ UNCHANGED <<ads_vma, mapped, ads_ret, policies, pol_p, pol_i, ads, aeng,
                   wa_i>>
    /\ A_Frame
    /\ mmio_reads' = mmio_reads + 1

\* GUC_ADD_MMIO_REG_ADS(eng_reg, RING_IMR(engine->mmio_base), ..., 0);
\* if (engine->id == RCS) for (i = 0; i < workarounds->guc_count; ...
A_RegImr ==
    /\ apc = "reg_imr"
    /\ AddToEngine(aeng, RING_IMR(MmioBase(aeng)),
                   {"ENGINERESET", "SAVE_CURRENT_VALUE"}, {})
    /\ wa_i' = 0
    /\ apc' = IF aeng = RCS /\ 0 < Len(guc_reg) THEN "reg_wa" ELSE "whitelist"
    /\ UNCHANGED <<ads_vma, mapped, ads_ret, policies, pol_p, pol_i, ads, aeng>>
    /\ A_Frame
    /\ UNCHANGED mmio_reads

\* GUC_ADD_MMIO_REG_ADS(eng_reg, _MMIO(workarounds->guc_reg[i].addr), ...,
\*                      workarounds->guc_reg[i].value); i++
A_RegWa ==
    /\ apc = "reg_wa"
    /\ AddToEngine(aeng, guc_reg[wa_i + 1].addr,
                   {"ENGINERESET", "SAVE_DEFAULT_VALUE"},
                   guc_reg[wa_i + 1].value)
    /\ wa_i' = wa_i + 1
    /\ apc' = IF wa_i + 1 < Len(guc_reg) THEN "reg_wa" ELSE "whitelist"
    /\ UNCHANGED <<ads_vma, mapped, ads_ret, policies, pol_p, pol_i, ads, aeng>>
    /\ A_Frame
    /\ UNCHANGED mmio_reads

\* white_list[engine->guc_id].mmio_start, .count and .offsets[]; the next
\* engine of for_each_engine, or the golden context.
A_WhiteList ==
    /\ apc = "whitelist"
    /\ reg_state' = [reg_state EXCEPT !.white_list[GucId(aeng)] =
           [mmio_start |-> RING_FORCE_TO_NONPRIV(MmioBase(aeng), 0),
            count |-> GUC_MMIO_WHITE_LIST_MAX,
            offsets |-> [k \in 0 .. (GUC_MMIO_WHITE_LIST_MAX - 1) |->
                            nonpriv[aeng]]]]
    /\ aeng' = aeng + 1
    /\ apc' = IF aeng + 1 < NumEngines THEN "reg_hws" ELSE "golden"
    /\ UNCHANGED <<ads_vma, mapped, ads_ret, policies, pol_p, pol_i, ads, wa_i,
                   warns>>
    /\ A_Frame
    /\ mmio_reads' = mmio_reads + GUC_MMIO_WHITE_LIST_MAX

\* blob->ads.golden_context_lrca =
\*         intel_guc_ggtt_offset(guc, kernel_ctx_vma) + skipped_offset;
A_Golden ==
    /\ apc = "golden"
    /\ ads' = [ads EXCEPT !.golden_context_lrca =
                   (kernel_ctx_offset + skipped_offset)]
    /\ aeng' = 0
    /\ apc' = "sizes"
    /\ UNCHANGED <<ads_vma, mapped, ads_ret, policies, pol_p, pol_i, reg_state,
                   wa_i, warns>>
    /\ A_Frame
    /\ UNCHANGED mmio_reads

\* blob->ads.eng_state_size[engine->guc_id] =
\*         engine->context_size - skipped_size;
A_EngStateSize ==
    /\ apc = "sizes"
    /\ ads' = [ads EXCEPT !.eng_state_size[GucId(aeng)] =
                   (context_size[aeng] - skipped_size)]
    /\ aeng' = aeng + 1
    /\ apc' = IF aeng + 1 < NumEngines THEN "sizes" ELSE "offsets"
    /\ UNCHANGED <<ads_vma, mapped, ads_ret, policies, pol_p, pol_i, reg_state,
                   wa_i, warns>>
    /\ A_Frame
    /\ UNCHANGED mmio_reads

\* base = intel_guc_ggtt_offset(guc, vma); the three offsets.
A_Offsets ==
    /\ apc = "offsets"
    /\ ads' = [ads EXCEPT
           !.scheduler_policies = (ads_offset + PtrOffset("policies")),
           !.reg_state_buffer =
               (ads_offset + PtrOffset("reg_state_buffer")),
           !.reg_state_addr = (ads_offset + PtrOffset("reg_state"))]
    /\ apc' = "unmap"
    /\ UNCHANGED <<ads_vma, mapped, ads_ret, policies, pol_p, pol_i, reg_state,
                   aeng, wa_i, warns>>
    /\ A_Frame
    /\ UNCHANGED mmio_reads

\* kunmap(page); return 0;
A_Unmap ==
    /\ apc = "unmap"
    /\ mapped' = FALSE
    /\ ads_ret' = "OK"
    /\ apc' = "returned"
    /\ UNCHANGED <<ads_vma, policies, pol_p, pol_i, reg_state, ads, aeng,
                   wa_i, warns>>
    /\ A_Frame
    /\ UNCHANGED mmio_reads

(* -------------------------------------------------- the three machines *)

\* Values of the driver state intel_guc_ads_create reads.
WaValues == {{}, {10}}
WaAddr(k) == 28672 + 4 * k
GucRegs == UNION {[1 .. n -> WaValues] : n \in 0 .. MaxGucCount}
RingModeValues == {{}, {11, 15}}
ContextSizes == {2 * PAGE_SIZE, 22 * PAGE_SIZE}
KernelCtxOffsets == {256 * PAGE_SIZE, 4096 * PAGE_SIZE}
AdsOffsets == {512 * PAGE_SIZE}
NonprivValues == {0, 9344}

\* Arguments of GUC_ADD_MMIO_REG_ADS calls made on a list of its own.
RegsetOffsets == {RING_HWS_PGA(MmioBase(0)), RING_IMR(MmioBase(0))}
RegsetFlags == {{"ENGINERESET", "SAVE_CURRENT_VALUE"},
                {"ENGINERESET", "SAVE_DEFAULT_VALUE"}}
RegsetValues == {{}, {10}}

HarnessIdle ==
    /\ hpc = "idle"
    /\ has_reset_engine = TRUE
    /\ do_reset = FALSE
    /\ engine = 0
    /\ tmp = 0
    /\ global = 0
    /\ global_after = 0
    /\ resets = NoFn
    /\ readback = NoFn
    /\ threads = {}
    /\ err = "OK"
    /\ attempts = 0
    /\ log = {}
    /\ baseline = [e \in Engines |-> 0]
    /\ reset_count = 0
    /\ reset_engine_count = [e \in Engines |-> 0]
    /\ flags = {}
    /\ hangs = 0
    /\ wpc = [e \in Engines |-> "none"]
    /\ should_stop = [e \in Engines |-> FALSE]
    /\ count = [e \in Engines |-> 0]
    /\ rq = [e \in Engines |-> [i \in {0, 1} |-> "null"]]
    /\ old = [e \in Engines |-> "null"]
    /\ werr = [e \in Engines |-> "OK"]
    /\ inflight = [e \in Engines |-> 0]
    /\ struct_mutex = NoOwner

AdsBlank(pos) ==
    /\ apc = pos
    /\ ads_vma = FALSE
    /\ mapped = FALSE
    /\ ads_ret = "none"
    /\ policies = NoBlob
    /\ pol_p = 0
    /\ pol_i = 0
    /\ reg_state = NoBlob
    /\ ads = NoBlob
    /\ aeng = 0
    /\ wa_i = 0
    /\ warns = 0
    /\ mmio_reads = 0

InputsIdle ==
    /\ guc_reg = <<>>
    /\ ring_mode = [e \in Engines |-> {}]
    /\ context_size = [e \in Engines |-> 2 * PAGE_SIZE]
    /\ kernel_ctx_offset = 256 * PAGE_SIZE
    /\ ads_offset = 512 * PAGE_SIZE
    /\ nonpriv = [e \in Engines |-> 0]

RegsetIdle ==
    /\ node = NoBlob
    /\ calls = <<>>

AdsInit ==
    /\ AdsBlank("alloc")
    /\ \E v \in GucRegs :
           guc_reg = [k \in 1 .. Len(v) |->
                          [addr |-> WaAddr(k - 1), value |-> v[k]]]
    /\ ring_mode \in [Engines -> RingModeValues]
    /\ context_size \in [Engines -> ContextSizes]
    /\ kernel_ctx_offset \in KernelCtxOffsets
    /\ ads_offset \in AdsOffsets
    /\ \E v \in NonprivValues : nonpriv = [e \in Engines |-> v]
    /\ RegsetIdle
    /\ HarnessIdle

AdsNext ==
    \/ A_Alloc
    \/ A_AllocFail
    \/ A_Map
    \/ A_PolDpc
    \/ A_PolMaxWi
    \/ A_PolCell
    \/ A_PolValid
    \/ A_RegHws
    \/ A_RegMode
    \/ A_RegImr
    \/ A_RegWa
    \/ A_WhiteList
    \/ A_Golden
    \/ A_EngStateSize
    \/ A_Offsets
    \/ A_Unmap

SpecAds == AdsInit /\ [][AdsNext]_vars

\* One GUC_ADD_MMIO_REG_ADS(&node, off, fl, dv) on the list `node`.
R_Add(off, fl, dv) ==
    /\ Len(calls) <= GUC_REGSET_MAX_REGISTERS
    /\ LET r == GucAddMmioRegAds(node, off, fl, dv) IN
           /\ node' = r.node
           /\ warns' = IF r.warned THEN warns + 1 ELSE warns
    /\ calls' = Append(calls, [offset |-> off, flags |-> fl, value |-> dv])
    /\ UNCHANGED <<apc, ads_vma, mapped, ads_ret, policies, pol_p, pol_i,
                   reg_state, ads, aeng, wa_i, mmio_reads>>
    /\ UNCHANGED <<harness_vars, ivars>>

RegsetInit ==
    /\ node = ZeroRegset
    /\ calls = <<>>
    /\ AdsBlank("idle")
    /\ InputsIdle
    /\ HarnessIdle

RegsetNext ==
    \E off \in RegsetOffsets, fl \in RegsetFlags, dv \in RegsetValues :
        R_Add(off, fl, dv)

SpecRegset == RegsetInit /\ [][RegsetNext]_vars

(* ------------------------------------------------------ SpecHarness *)

HarnessInit ==
    /\ hpc = "entry"
    /\ has_reset_engine \in BOOLEAN
    /\ do_reset \in BOOLEAN
    /\ engine = 0
    /\ tmp = 0
    /\ global = 0
    /\ global_after = 0
    /\ resets = NoFn
    /\ readback = NoFn
    /\ threads = {}
    /\ err = "OK"
    /\ attempts = 0
    /\ log = {}
    /\ baseline = [e \in Engines |-> 0]
    /\ reset_count = 0
    /\ reset_engine_count = [e \in Engines |-> 0]
    /\ flags = {}
    /\ hangs = 0
    /\ wpc = [e \in Engines |-> "none"]
    /\ should_stop = [e \in Engines |-> FALSE]
    /\ count = [e \in Engines |-> 0]
    /\ rq = [e \in Engines |-> [i \in {0, 1} |-> "null"]]
    /\ old = [e \in Engines |-> "null"]
    /\ werr = [e \in Engines |-> "OK"]
    /\ inflight = [e \in Engines |-> 0]
    /\ struct_mutex = NoOwner
    /\ AdsBlank("idle")
    /\ InputsIdle
    /\ RegsetIdle

HarnessNext ==
    \/ H_Entry
    \/ H_IterBegin
    \/ H_Spawn
    \/ H_SetBit
    \/ H_Reset
    \/ H_Idle
    \/ H_ClearBit
    \/ H_Stop
    \/ H_Join
    \/ H_GlobalCheck
    \/ H_IterEnd
    \/ H_Final
    \/ \E e \in Engines :
        \/ W_MockFileFail(e)
        \/ W_CtxLock(e)
        \/ W_CtxUnlock(e)
        \/ W_LoopCheck(e)
        \/ W_Stopped(e)
        \/ W_Lock(e)
        \/ W_Submit(e)
        \/ W_AllocFail(e)
        \/ W_Wait(e)
        \/ E_Complete(e)
        \/ E_HangReset(e)

SpecHarness == HarnessInit /\ [][HarnessNext]_vars

\* One step of igt_active_engines, the controller thread.
H_Step ==
    \/ H_Entry \/ H_IterBegin \/ H_Spawn \/ H_SetBit \/ H_Reset \/ H_Idle
    \/ H_ClearBit \/ H_Stop \/ H_Join \/ H_GlobalCheck \/ H_IterEnd \/ H_Final

\* One step of a worker thread that does not have to wait for struct_mutex.
W_Step(e) ==
    \/ W_MockFileFail(e) \/ W_CtxUnlock(e) \/ W_LoopCheck(e) \/ W_Stopped(e)
    \/ W_Submit(e) \/ W_AllocFail(e) \/ W_Wait(e)

\* The selftest under a fair scheduler: a runnable kthread is run in the end
\* (weak fairness of the controller and of each worker), a thread sleeping in
\* mutex_lock gets struct_mutex when it is released over and over (strong
\* fairness: the kernel mutex hands over to its waiters), and the engine
\* completes every request it was given.
HarnessFairness ==
    /\ WF_vars(H_Step)
    /\ \A e \in Engines :
        /\ WF_vars(W_Step(e))
        /\ SF_vars(W_CtxLock(e))
        /\ SF_vars(W_Lock(e))
        /\ WF_vars(E_Complete(e))

SpecHarnessFair == HarnessInit /\ [][HarnessNext]_vars /\ HarnessFairness

(* ------------------------------------------------ claims on the harness *)

\* The controller has compared the counts of the current target iteration.
IterationJudged == hpc \in {"iterend", "final", "returned"}

\* C1: whenever the reset count of a non-target engine read after its worker
\* was joined differs from the value sampled before the worker was started,
\* err is -EIO from then on, so the iteration cannot pass and
\* igt_active_engines returns -EIO.
C1_InnocentResetFails ==
    \A x \in DOMAIN readback :
        /\ x \in DOMAIN resets
        /\ readback[x] # resets[x] => err = "EIO"

C1_Witness ==
    /\ hpc = "returned"
    /\ err = "EIO"
    /\ \E x \in DOMAIN readback : x # engine /\ readback[x] # resets[x]

\* C2 as stated: when the global count grew by exactly the number of resets of
\* the target completed in the iteration, the change is not reported.
C2_Original ==
    (do_reset /\ hpc = "iterend" /\ global_after - global = attempts)
        => "global" \notin log

\* C2 amended: the controller reports any change of the global count between
\* the top of the iteration and the final comparison, whatever the number of
\* resets of the target that completed, and the result is then -EIO.
C2_AnyGlobalChangeFails ==
    (do_reset /\ IterationJudged) =>
        /\ ("global" \in log) <=> (global_after # global)
        /\ (global_after # global) => err = "EIO"

C2_Witness ==
    /\ do_reset
    /\ hpc = "returned"
    /\ attempts > 0
    /\ global_after - global = attempts
    /\ log = {"global"}
    /\ err = "EIO"

\* C3 as stated: in reset mode the target's own count is sampled and compared,
\* and a movement other than the number of completed resets fails the run.
C3_Original ==
    (do_reset /\ hpc = "iterend") =>
        /\ engine \in DOMAIN resets
        /\ engine \in DOMAIN readback
        /\ (readback[engine] - resets[engine] # attempts) => err # "OK"

\* C3 amended: in reset mode the controller neither samples nor reads back the
\* target engine's own reset count and starts no worker on it: resets[] and
\* the comparison after the join cover the non-target engines only.
C3_TargetNeverCompared ==
    do_reset =>
        /\ engine \notin DOMAIN resets
        /\ engine \notin DOMAIN readback
        /\ engine \notin threads
        /\ wpc[engine] = "none"

C3_Witness ==
    /\ do_reset
    /\ hpc = "iterend"
    /\ attempts > 0
    /\ threads # {}
    /\ reset_engine_count[engine] = baseline[engine] + attempts
    /\ engine \notin DOMAIN readback

C5_Original == \A e \in Engines : inflight[e] <= 2

\* C5 amended: a worker never has more than 3 requests added and not yet
\* completed: it adds the new request to a slot before it waits for the
\* slot's previous occupant, so that occupant, the other slot and the new
\* request can all be outstanding.
C5_AtMostThreeOutstanding == \A e \in Engines : inflight[e] <= 3

C5_Witness ==
    \E e \in Engines :
        /\ wpc[e] = "wait"
        /\ old[e] = "busy"
        /\ inflight[e] = 3

(* ---------------------------------------- claims on the GuC descriptor *)

PoliciesInitDone ==
    ads_vma /\ apc \notin {"alloc", "map", "pol_dpc", "pol_wi", "pol_cell",
                           "pol_valid"}

PoliciesComplete ==
    /\ \A c \in PolicyCells : policies.policy[c] = DefaultPolicy
    /\ policies.dpc_promote_time = POLICY_DEFAULT_DPC_PROMOTE_TIME_US
    /\ policies.max_num_work_items = POLICY_MAX_NUM_WI

\* C6: whenever is_valid is 1 every policy cell holds the default quantum,
\* preemption and fault times with flags 0 and dpc_promote_time and
\* max_num_work_items are written; is_valid is 0 at every state before the
\* final statement of guc_policies_init and 1 from that statement on.
C6_ValidImpliesComplete ==
    ads_vma =>
        /\ policies.is_valid = 1 => PoliciesComplete
        /\ policies.is_valid = 1 <=> PoliciesInitDone

C6_Witness ==
    /\ apc = "reg_hws"
    /\ aeng = 0
    /\ policies.is_valid = 1
    /\ PoliciesComplete
    /\ pol_p = GUC_CLIENT_PRIORITY_NUM
    /\ reg_state = ZeroRegState

\* C7: after n <= GUC_REGSET_MAX_REGISTERS calls of GUC_ADD_MMIO_REG_ADS on
\* an empty list, number_of_registers is n and entry i holds the offset,
\* flags and value of the i-th call, a zero value included; the slots after
\* the n-th are untouched.
C7_InsertionOrderKept ==
    Len(calls) <= GUC_REGSET_MAX_REGISTERS =>
        /\ node.number_of_registers = Len(calls)
        /\ \A k \in 1 .. Len(calls) : node.registers[k - 1] = calls[k]
        /\ \A k \in Len(calls) .. (GUC_REGSET_MAX_REGISTERS - 1) :
               node.registers[k] = ZeroReg

C7_Witness ==
    /\ Len(calls) = GUC_REGSET_MAX_REGISTERS
    /\ node.number_of_registers = GUC_REGSET_MAX_REGISTERS
    /\ calls[1].value = {}
    /\ calls[2].value # {}
    /\ calls[GUC_REGSET_MAX_REGISTERS].value = {}
    /\ calls[1].offset # calls[2].offset
    /\ calls[1].flags # calls[2].flags

AddStep == apc \in {"reg_hws", "reg_mode", "reg_imr", "reg_wa"}

AtCapacity ==
    reg_state.engine_reg[GucId(aeng)].number_of_registers
        >= GUC_REGSET_MAX_REGISTERS

AddsOf(e) == 3 + (IF e = RCS THEN Len(guc_reg) ELSE 0)

Dropped(e) ==
    IF AddsOf(e) > GUC_REGSET_MAX_REGISTERS
    THEN AddsOf(e) - GUC_REGSET_MAX_REGISTERS ELSE 0

RECURSIVE DroppedUpTo(_)
DroppedUpTo(e) == IF e < 0 THEN 0 ELSE Dropped(e) + DroppedUpTo(e - 1)

\* C8: number_of_registers never exceeds GUC_REGSET_MAX_REGISTERS; an add
\* made at capacity changes no register list and no count, reports one
\* WARN_ON and is followed by the next statement of the construction; an
\* add below capacity reports nothing; and whenever the construction
\* returns after a successful allocation it returns 0 with one report per
\* dropped entry.
C8_OverflowNonFatal ==
    [][/\ ads_vma' =>
              \A g \in GucIds :
                  reg_state'.engine_reg[g].number_of_registers
                      <= GUC_REGSET_MAX_REGISTERS
       /\ (AddStep /\ AtCapacity) =>
              /\ reg_state' = reg_state
              /\ warns' = warns + 1
              /\ apc' \in {"reg_mode", "reg_imr", "reg_wa", "whitelist"}
       /\ (AddStep /\ ~AtCapacity) => warns' = warns
       /\ (apc = "unmap") =>
              /\ ads_ret' = "OK"
              /\ apc' = "returned"
              /\ warns' = DroppedUpTo(NumEngines - 1)
              /\ \A e \in Engines :
                     reg_state'.engine_reg[GucId(e)].number_of_registers
                         = AddsOf(e) - Dropped(e)]_vars

C8_Witness ==
    /\ apc = "returned"
    /\ ads_ret = "OK"
    /\ Len(guc_reg) = GUC_REGSET_MAX_REGISTERS - 2
    /\ warns = 1
    /\ reg_state.engine_reg[GucId(RCS)].number_of_registers
           = GUC_REGSET_MAX_REGISTERS
    /\ ads.scheduler_policies # 0

GoldenWritten ==
    ads_vma /\ apc \in {"sizes", "offsets", "unmap", "returned"}

\* C9 as stated: the resume address is the pinned default-context address
\* plus one page plus 80 dwords.
C9_Original ==
    GoldenWritten =>
        ads.golden_context_lrca = kernel_ctx_offset + PAGE_SIZE + 80 * 4

\* C9: the resume address stored in golden_context_lrca is the pinned
\* default-context address plus LRC_HEADER_PAGES pages (one page, 4096
\* bytes); the 80 dwords are not added.
C9_ResumeAddressSkipsOnePage ==
    GoldenWritten =>
        ads.golden_context_lrca = (kernel_ctx_offset + 1 * PAGE_SIZE)

C9_Witness ==
    /\ apc = "returned"
    /\ ads_ret = "OK"
    /\ ads.golden_context_lrca = kernel_ctx_offset + 4096
    /\ ads.golden_context_lrca # kernel_ctx_offset + 4096 + 320

SizeWritten(e) ==
    /\ ads_vma
    /\ \/ apc \in {"offsets", "unmap", "returned"}
       \/ apc = "sizes" /\ e < aeng

\* C10 as stated: the size is context_size less the PPHWSP pages and the
\* header skip of one page plus 80 dwords.
C10_Original ==
    \A e \in Engines :
        SizeWritten(e) =>
            ads.eng_state_size[GucId(e)] =
                (context_size[e]
                    - (LRC_PPHWSP_SZ * PAGE_SIZE + (PAGE_SIZE + 80 * 4)))

\* C10: for every engine eng_state_size[guc_id] is context_size less
\* (LRC_PPHWSP_SZ pages + 80 dwords) = context_size - 4416, context_size
\* being at least 4416; the quantity subtracted is not the one added to
\* the default-context address, which is one page.
C10_StateSizeSkipsPageAndRegisters ==
    /\ \A e \in Engines :
           SizeWritten(e) =>
               ads.eng_state_size[GucId(e)] =
                   (context_size[e] - (1 * PAGE_SIZE + 80 * 4))
    /\ GoldenWritten =>
           ads.golden_context_lrca - kernel_ctx_offset
               # 1 * PAGE_SIZE + 80 * 4

C10_Witness ==
    /\ apc = "returned"
    /\ ads_ret = "OK"
    /\ \E e, f \in Engines :
           /\ context_size[e] # context_size[f]
           /\ ads.eng_state_size[GucId(e)] = context_size[e] - 4416
           /\ ads.eng_state_size[GucId(f)] = context_size[f] - 4416

OffsetsWritten == ads_vma /\ apc \in {"unmap", "returned"}

\* C11: after a successful intel_guc_ads_create the three stored offsets are
\* the blob's firmware-visible base plus the member's offset in the blob;
\* in layout order (ads, policies, reg_state, reg_state_buffer) they are
\* strictly increasing, every member ends where the next begins or before,
\* the header ends before the policies, and the last member ends inside the
\* allocated region of PAGE_ALIGN(sizeof(*blob)) bytes.
C11_OffsetsOrderedAndInside ==
    OffsetsWritten =>
        /\ ads.scheduler_policies = ads_offset + PtrOffset("policies")
        /\ ads.reg_state_addr = ads_offset + PtrOffset("reg_state")
        /\ ads.reg_state_buffer = ads_offset + PtrOffset("reg_state_buffer")
        /\ ads_offset + SizeofAds <= ads.scheduler_policies
        /\ ads.scheduler_policies < ads.reg_state_addr
        /\ ads.reg_state_addr < ads.reg_state_buffer
        /\ ads.scheduler_policies + SizeofPolicies <= ads.reg_state_addr
        /\ ads.reg_state_addr + SizeofRegState <= ads.reg_state_buffer
        /\ ads.reg_state_buffer + SizeofRegStateBuffer
               <= ads_offset + PageAlign(SizeofBlob)

C11_Witness ==
    /\ apc = "returned"
    /\ ads_ret = "OK"
    /\ ads.scheduler_policies > ads_offset
    /\ ads.reg_state_buffer - ads.reg_state_addr = SizeofRegState
    /\ ads_offset + PageAlign(SizeofBlob)
           >= ads.reg_state_buffer + SizeofRegStateBuffer

BlobAbsent == policies = NoBlob /\ reg_state = NoBlob /\ ads = NoBlob

\* C12: when the allocation of the backing object fails,
\* intel_guc_ads_create has returned that error, made no register read,
\* written no blob field, mapped nothing and left guc->ads_vma unset; and
\* while guc->ads_vma is unset there is no blob at all.
C12_AllocFailureLeavesNothing ==
    /\ ads_ret = "ENOMEM" =>
           /\ apc = "returned"
           /\ ~ads_vma
           /\ ~mapped
           /\ BlobAbsent
           /\ mmio_reads = 0
           /\ warns = 0
    /\ ~ads_vma => BlobAbsent /\ mmio_reads = 0
    /\ apc = "returned" => ads_ret \in {"ENOMEM", "OK"}

C12_Witness ==
    /\ apc = "returned"
    /\ ads_ret = "ENOMEM"
    /\ ~ads_vma
    /\ BlobAbsent
    /\ Len(guc_reg) = MaxGucCount

(* ---------------------------------- further claims on the harness *)

ResetFailed == "reset_failed" \in log

\* C13 as stated: the error of the failed i915_reset_engine is what
\* igt_active_engines returns.
C13_Original == (hpc = "returned" /\ ResetFailed) => err = "ENODEV"

\* C13: once i915_reset_engine has returned an error the harness makes no
\* further reset call, for this target or a later one (the count of calls
\* and the target stay as they are and no new iteration begins), and
\* igt_active_engines returns non-zero: the error of the reset or the -EIO
\* a later check of the iteration put in its place.
C13_NoRetryAfterFailure ==
    [][ResetFailed =>
           /\ attempts' = attempts
           /\ engine' = engine
           /\ hpc' \notin {"iter", "spawn", "reset"}
           /\ err' \in {"ENODEV", "EIO"}
           /\ hpc \notin {"iter", "spawn", "reset"}]_vars

C13_Witness ==
    /\ hpc = "returned"
    /\ ResetFailed
    /\ attempts = 1
    /\ engine = 0
    /\ err = "EIO"
    /\ reset_engine_count[engine] = baseline[engine]

(* ------------------------------ further claims on the GuC descriptor *)

ListComplete(e) ==
    /\ ads_vma
    /\ \/ apc \in {"golden", "sizes", "offsets", "unmap", "returned"}
       \/ /\ apc \in {"reg_hws", "reg_mode", "reg_imr", "reg_wa",
                       "whitelist"}
          /\ e < aeng

TableFieldsWritten ==
    /\ policies.dpc_promote_time = POLICY_DEFAULT_DPC_PROMOTE_TIME_US
    /\ policies.max_num_work_items = POLICY_MAX_NUM_WI

SomeCellWritten == \E c \in PolicyCells : policies.policy[c] # ZeroPolicy

\* C15 as stated: no table-level field is written before the last cell.
C15_Original ==
    ads_vma =>
        ((policies.dpc_promote_time # 0 \/ policies.max_num_work_items # 0)
             => \A c \in PolicyCells : policies.policy[c] = DefaultPolicy)

\* C15: guc_policies_init writes dpc_promote_time first and
\* max_num_work_items second, then the cells in order of priority and
\* engine, and is_valid last: a cell is written only after both table
\* fields, a cell only after every cell before it, and is_valid only after
\* all of them.
C15_TableFieldsThenCells ==
    ads_vma =>
        /\ policies.max_num_work_items # 0 => policies.dpc_promote_time # 0
        /\ SomeCellWritten => TableFieldsWritten
        /\ \A c, d \in PolicyCells :
               (policies.policy[d] # ZeroPolicy
                /\ (c[1] < d[1] \/ (c[1] = d[1] /\ c[2] < d[2])))
                   => policies.policy[c] = DefaultPolicy
        /\ policies.is_valid = 1 =>
               /\ TableFieldsWritten
               /\ \A c \in PolicyCells : policies.policy[c] = DefaultPolicy

C15_Witness ==
    /\ apc = "pol_cell"
    /\ TableFieldsWritten
    /\ ~SomeCellWritten
    /\ policies.is_valid = 0

C17_IndicatorDiscipline ==
    [][/\ flags' \subseteq {engine'}
       /\ Cardinality(flags') <= 1
       /\ (flags' # {}) <=> (hpc' \in {"reset", "clear"})
       /\ \A e \in Engines \ {engine} : (e \in flags') <=> (e \in flags)
       /\ attempts' = attempts + 1 => (engine \in flags /\ hpc = "reset")
       /\ hpc' \in {"unwind", "join", "iterend", "final", "returned"}
              => flags' = {}]_vars

C17_Witness ==
    /\ hpc = "returned"
    /\ flags = {}
    /\ do_reset
    /\ ResetFailed
    /\ attempts = MaxAttempts
    /\ engine = 0

\* C18: the stop signal is tested once per loop iteration, at the loop test:
\* a worker goes on to a submission only from the loop test and only with the
\* signal down, so once the signal is up at most the submission it had
\* already begun follows.  Under a fair scheduler, with every request
\* completing, a worker whose signal is up exits, every join returns, and an
\* iteration that left its reset loop reaches its end.
C18_StopIsHonoured ==
    /\ [][\A e \in Engines :
            /\ (wpc'[e] = "lock" /\ wpc[e] # "lock")
                   => (wpc[e] = "loop" /\ ~should_stop[e])
            /\ (should_stop[e] /\ wpc[e] \in {"loop", "wait", "exited"})
                   => wpc'[e] \in {"loop", "wait", "exited", "none"}
            /\ (should_stop[e] /\ inflight'[e] > inflight[e])
                   => (wpc[e] = "alloc" /\ wpc'[e] \in {"loop", "wait"})]_vars
    /\ \A e \in Engines : should_stop[e] ~> (wpc[e] = "exited")
    /\ (hpc = "join") ~> (hpc = "unwind")
    /\ (hpc = "clear") ~> (hpc = "iterend")

\* A worker that was told to stop while it waited for an older request has
\* left its loop with 0, and the controller is still in kthread_stop.
C18_Witness ==
    /\ hpc = "join"
    /\ should_stop[tmp]
    /\ wpc[tmp] = "exited"
    /\ werr[tmp] = "OK"
    /\ reset_count > global

\* The three parts of the blob, and the states in which every engine's
\* register list and whitelist are in place.
Blob == <<policies, reg_state, ads>>
AllListsBuilt ==
    \A e \in Engines :
        /\ reg_state.engine_reg[GucId(e)].number_of_registers > 0
        /\ reg_state.white_list[GucId(e)].count = GUC_MMIO_WHITE_LIST_MAX
OffsetFieldsZero ==
    /\ ads.scheduler_policies = 0
    /\ ads.reg_state_buffer = 0
    /\ ads.reg_state_addr = 0

\* C19 as stated: guc->ads_vma is set only once every field is written.
C19_Original == ads_vma => apc \in {"unmap", "returned"}

\* C19: every write to the blob happens while its page is mapped; the
\* policy table is valid before the first register-list write, all lists and
\* whitelists are in place before the first write to the descriptor (resume
\* address, state sizes), the three offsets are zero until the last write
\* and nothing is written after it or after the unmap.  guc->ads_vma,
\* however, is set when the object is allocated: before the page is mapped
\* and before any field is written, and it is not touched again.
C19_BuildOrder ==
    [][/\ (ads_vma' # ads_vma) =>
              /\ apc = "alloc" /\ apc' = "map"
              /\ ads_vma' /\ ~mapped'
              /\ Blob' = <<ZeroPolicies, ZeroRegState, ZeroAds>>
       /\ (apc # "alloc" /\ Blob' # Blob) => (ads_vma /\ mapped /\ mapped')
       /\ (apc # "alloc" /\ policies' # policies) =>
              /\ apc \in {"pol_dpc", "pol_wi", "pol_cell", "pol_valid"}
              /\ reg_state = ZeroRegState /\ reg_state' = reg_state
              /\ ads = ZeroAds /\ ads' = ads
       /\ (apc # "alloc" /\ reg_state' # reg_state) =>
              /\ policies.is_valid = 1 /\ policies' = policies
              /\ ads = ZeroAds /\ ads' = ads
       /\ (apc # "alloc" /\ ads' # ads) =>
              /\ policies.is_valid = 1 /\ policies' = policies
              /\ AllListsBuilt /\ reg_state' = reg_state
              /\ OffsetFieldsZero
              /\ (~OffsetFieldsZero') = (apc = "offsets")
       /\ (apc = "offsets") => (Blob' # Blob /\ apc' = "unmap")
       /\ (apc \in {"unmap", "returned"}) => Blob' = Blob
       /\ (mapped /\ ~mapped') => (apc = "unmap" /\ apc' = "returned")
       /\ (~mapped /\ mapped') => (apc = "map" /\ Blob' = Blob)]_vars

\* The build has just written its first field: guc->ads_vma has been set
\* since the allocation, with every other field and all three offsets
\* still zero.
C19_Witness ==
    /\ apc = "pol_wi"
    /\ ads_vma
    /\ mapped
    /\ policies.dpc_promote_time = POLICY_DEFAULT_DPC_PROMOTE_TIME_US
    /\ reg_state = ZeroRegState
    /\ ads = ZeroAds

====
